---- MODULE Spec2Model ----
(***************************************************************************)
(* The internship-request workflow of app.py: the Firestore collection of  *)
(* request records, the generated-letter folder, the upload folder, the    *)
(* admin session flag, and the request handlers (submit, admin_login,      *)
(* admin_logout, admin_dashboard, admin_view, uploaded_file,               *)
(* admin_approve, admin_reject, serve_generated, download_letter).         *)
(*                                                                         *)
(* A handler runs on a worker thread.  Each of its accesses to the shared  *)
(* stores (a Firestore get/query/set/update, a file write, unlink or       *)
(* existence test) is one step, so two handlers interleave exactly at      *)
(* those accesses.  Every store access has an outcome ok \in BOOLEAN: the   *)
(* call returns, or it raises.                                             *)
(***************************************************************************)
EXTENDS Integers, Sequences, FiniteSets, TLC

\* ---------------------------------------------------------------- bounds
MaxRecords == 1      \* documents the collection may hold
NumThreads == 2      \* worker threads serving requests at the same time
MaxClock   == 1      \* last instant of the wall clock

Keys(n) == 1..n                   \* store keys handed out by document()
ReqIds  == 0..MaxRecords          \* the <req_id> of a URL; 0 is no store key
Threads == 1..NumThreads
Times   == 0..MaxClock

\* Python's None and a present value, for an optional field
None    == <<>>
Some(v) == <<v>>
Val(o)  == o[1]

VARIABLES
  records,          \* db.collection(COLLECTION): key -> None | Some(document)
  gen_files,        \* names of the files in GENERATED_FOLDER
  upload_files,     \* names of the files in UPLOAD_FOLDER/permission_letters
  session,          \* the browser's Flask session cookie
  clock,            \* datetime.utcnow()
  WEASY_AVAILABLE,  \* whether the weasyprint import succeeded
  os_sep,           \* os.sep of the host: "/" or "\\"
  host_files,       \* the files of the host outside the two folders
  req               \* per worker thread: the handler it runs and its locals

\* what the host fixes when the application starts
host == <<WEASY_AVAILABLE, os_sep, host_files>>
vars == <<records, gen_files, upload_files, session, clock, host, req>>

\* the keys the collection has room for
Ids  == DOMAIN records

\* ------------------------------------------------------ strings and paths
\* A Python str is the sequence of its characters.
uploads == <<"u", "p", "l", "o", "a", "d", "s">>
permission_letters == <<"p", "e", "r", "m", "i", "s", "s", "i", "o", "n", "_",
                        "l", "e", "t", "t", "e", "r", "s">>
a_pdf == <<"a", ".", "p", "d", "f">>
a_txt == <<"a", ".", "t", "x", "t">>

\* s.startswith(p)
StartsWith(s, p) == Len(p) <= Len(s) /\ SubSeq(s, 1, Len(p)) = p

\* s.replace(a, b) for single characters a and b
Replace(s, a, b) == [i \in 1..Len(s) |-> IF s[i] = a THEN b ELSE s[i]]

\* s.lstrip(chars): the leading characters that are in the SET chars go
RECURSIVE LStrip(_, _)
LStrip(s, cs) == IF s # <<>> /\ s[1] \in cs THEN LStrip(Tail(s), cs) ELSE s

\* s.rstrip(chars)
RECURSIVE RStrip(_, _)
RStrip(s, cs) == IF s # <<>> /\ s[Len(s)] \in cs
                   THEN RStrip(SubSeq(s, 1, Len(s) - 1), cs) ELSE s

\* s.strip(): leading and trailing whitespace goes
strip(s) == RStrip(LStrip(s, {" "}), {" "})

\* s[len(p):] when s starts with p, else s
DropPrefix(s, p) == IF StartsWith(s, p) THEN SubSeq(s, Len(p) + 1, Len(s)) ELSE s

\* s.split(c)
RECURSIVE Split(_, _)
Split(s, c) ==
  IF \A i \in 1..Len(s) : s[i] # c THEN <<s>>
  ELSE LET i == CHOOSE x \in 1..Len(s) : s[x] = c /\ \A j \in 1..(x - 1) : s[j] # c
       IN  <<SubSeq(s, 1, i - 1)>> \o Split(SubSeq(s, i + 1, Len(s)), c)

\* c.join(segs)
RECURSIVE Join(_, _)
Join(segs, c) == IF segs = <<>> THEN <<>>
                 ELSE IF Len(segs) = 1 THEN segs[1]
                 ELSE segs[1] \o <<c>> \o Join(Tail(segs), c)

\* str.lower() on the characters file names are made of
LowerChar(c) == CASE c = "P" -> "p" [] c = "D" -> "d" [] c = "F" -> "f"
                  [] c = "A" -> "a" [] OTHER -> c
StrLower(s) == [i \in 1..Len(s) |-> LowerChar(s[i])]

\* the decimal digit of a small number
Digit(n) == <<"0", "1", "2", "3", "4", "5", "6", "7", "8", "9">>[n + 1]

\* pathlib, on the "/"-separated string of a path: Path(s).parts without
\* the root, empty and "." components dropped as PurePath drops them
Parts(s) == SelectSeq(Split(s, "/"), LAMBDA x : x # <<>> /\ x # <<".">>)

\* Path(s).name
PathName(s) == IF Parts(s) = <<>> THEN <<>> ELSE Parts(s)[Len(Parts(s))]

\* Path(a) / b
PathJoin(a, b) == IF b = <<>> THEN a
                  ELSE IF b[1] = "/" THEN b
                  ELSE a \o <<"/">> \o b

\* Path.resolve() of an absolute path on a file system without symbolic
\* links: each ".." removes the component before it, the root stays
RECURSIVE Collapse(_, _)
Collapse(done, rest) ==
  IF rest = <<>> THEN done
  ELSE IF Head(rest) = <<".", ".">>
    THEN Collapse(IF done = <<>> THEN <<>> ELSE SubSeq(done, 1, Len(done) - 1),
                  Tail(rest))
    ELSE Collapse(Append(done, Head(rest)), Tail(rest))
resolve(p) == <<"/">> \o Join(Collapse(<<>>, Parts(p)), "/")

\* config.py: BASE_DIR, UPLOAD_FOLDER and GENERATED_FOLDER, as Path prints
\* them
BASE_DIR == <<"/", "a", "p", "p">>
UPLOAD_FOLDER == PathJoin(PathJoin(BASE_DIR, uploads), permission_letters)
GENERATED_FOLDER == PathJoin(BASE_DIR, <<"g", "e", "n", "e", "r", "a", "t", "e", "d", "_",
                                         "l", "e", "t", "t", "e", "r", "s">>)
\* config.py itself, a file of BASE_DIR
config_py == PathJoin(BASE_DIR, <<"c", "o", "n", "f", "i", "g", ".", "p", "y">>)

\* ------------------------------------------------------------ file names
\* f"offer_{id}.pdf" and the legacy patterns download_letter looks for
GenName(pre, id) == [pre |-> pre, id |-> id]
\* the candidates of download_letter, in the order it tries them
Candidates(id) == << GenName("internship_", id), GenName("", id),
                     GenName("offer_", id), GenName("letter_", id),
                     GenName("offer_", id) >>
\* the file name as a str
PreStr(pre) == CASE pre = "offer_" -> <<"o", "f", "f", "e", "r", "_">>
                 [] pre = "letter_" -> <<"l", "e", "t", "t", "e", "r", "_">>
                 [] pre = "internship_" -> <<"i", "n", "t", "e", "r", "n", "s", "h", "i", "p", "_">>
                 [] OTHER -> <<>>
GenStr(g) == PreStr(g.pre) \o <<Digit(g.id), ".", "p", "d", "f">>
GenNames == { GenName(p, i) : p \in {"internship_", "", "offer_", "letter_"},
                              i \in ReqIds }

\* secure_filename on a URL path <up-levels, base name>: the separators and
\* the leading dots are stripped, the base name is left
secure_filename(path) == path.name
GenPaths == [up : {0, 1}, name : { GenName("offer_", i) : i \in ReqIds }]

\* ------------------------------------------------------------------ status
\* A document's status field holds a string, holds null, or is absent.
\* null is the value Python reads as None; absent marks a document without
\* the field.
null   == "<null>"
absent == "<absent>"
\* the values of the field: the ones the handlers write, the casings of
\* 'approved' that approve's check allows for, None and no field
StoredStatuses == {"pending", "approved", "rejected", "Approved", "APPROVED",
                   null, absent}

\* data.get('status', default): the default only when the field is absent
dict_get(v, default) == IF v = absent THEN default ELSE v
\* v or '': the empty string for None (and for the empty string)
or_empty(v) == IF v = null THEN "" ELSE v

\* str.lower() on the status strings
Lower(s) == CASE s = "Approved" -> "approved"
              [] s = "APPROVED" -> "approved"
              [] OTHER -> s

\* (data.get('status') or '').lower() == 'approved'
AlreadyApprovedNever(data) == FALSE
AlreadyApproved(data) == Lower(or_empty(dict_get(data.status, null))) = "approved"

\* admin_dashboard: 'status': data.get('status', 'pending') of a row
row_status(data) == dict_get(data.status, "pending")
\* admin_view: status = data.get("status"), handed to the page as it is
view_status(data) == dict_get(data.status, null)

\* ----------------------------------------------------------------- session
\* the session before a login and after session.clear(): no key is set
NoSession == [admin_logged_in |-> FALSE, admin_user |-> None]
\* config.py: ADMIN_USERNAME and ADMIN_PASSWORD, at their defaults
ADMIN_USERNAME == "admin"
ADMIN_PASSWORD == "admin123"
\* the username and password of a login form
Pair(u, p) == [username |-> u, password |-> p]
Configured == Pair(ADMIN_USERNAME, ADMIN_PASSWORD)
\* the configured pair and a pair that differs from it
Credentials == {Configured, Pair(ADMIN_USERNAME, "")}

admin_required_off(s) == TRUE
\* admin_required: the wrapped handler runs iff session.get('admin_logged_in')
admin_required(s) == s.admin_logged_in

\* ---------------------------------------------------------------- requests
AdminOps == {"admin_dashboard", "admin_view", "uploaded_file", "admin_approve",
             "admin_reject", "serve_generated", "download_letter"}

RequiredFields == {"full_name", "college_name", "email", "start_date",
                   "end_date", "duration"}
FullForm  == [f \in RequiredFields |-> <<"v">>]
\* the complete form, and the forms with one required field left empty
Forms     == {FullForm} \cup { [FullForm EXCEPT ![f] = <<>>] : f \in RequiredFields }
\* file.filename of the attached file; the empty name is no file attached
FileNames == {<<>>, a_pdf, a_txt}
NoForm    == [f \in RequiredFields |-> <<>>]
NoPath    == [up |-> 0, name |-> GenName("", 0)]
\* an upload file: the instant in its name and the sanitized original name
SavedName(ts, name) == [ts |-> ts, name |-> name]
\* saved_filename = f"{ts}_{filename}"
SavedStr(saved) == <<Digit(saved.ts), "_">> \o saved.name

BaseRq == [op |-> "", method |-> "POST", req_id |-> 0, path |-> NoPath,
           upload |-> <<>>, cred |-> Pair("", ""), form |-> NoForm, file |-> <<>>]

\* what a client may send
Requests ==
     { [BaseRq EXCEPT !.op = o, !.req_id = i] :
         o \in {"admin_view", "admin_approve", "admin_reject", "download_letter"},
         i \in ReqIds }
  \cup { [BaseRq EXCEPT !.op = "serve_generated", !.path = p] : p \in GenPaths }
  \cup { [BaseRq EXCEPT !.op = "uploaded_file",
                        !.upload = SavedStr(SavedName(ts, a_pdf))] : ts \in Times }
  \cup { [BaseRq EXCEPT !.op = "admin_login", !.cred = c] : c \in Credentials }
  \cup { [BaseRq EXCEPT !.op = o] : o \in {"admin_logout", "admin_dashboard"} }
  \cup { [BaseRq EXCEPT !.op = "submit", !.form = f, !.file = n] :
         f \in Forms, n \in FileNames }

\* the first store access of each handler
FirstPc(o) == CASE o = "submit"          -> "su_save"
                [] o = "admin_login"     -> "lg_post"
                [] o = "admin_logout"    -> "lo_clear"
                [] o = "admin_dashboard" -> "ad_list"
                [] o = "admin_view"      -> "av_get"
                [] o = "uploaded_file"   -> "uf_file"
                [] o = "admin_approve"   -> "ap_get"
                [] o = "admin_reject"    -> "rj_get"
                [] o = "serve_generated" -> "sg_file"
                [] o = "download_letter" -> "dl_files"

\* a thread's handler and its locals
IdleReq == [pc |-> "idle", rq |-> BaseRq, doc_ref |-> None, data |-> None,
            issued |-> None, pdf_generated |-> FALSE, warned |-> FALSE,
            res |-> "", sent |-> None, page_status |-> None]

Finish(l, r) == [l EXCEPT !.pc = "done", !.res = r]

\* the decorated handler: redirect to the login page, or enter the handler
Entry(r) ==
  LET l == [IdleReq EXCEPT !.rq = r] IN
  IF r.op \in AdminOps /\ ~admin_required(session)
    THEN Finish(l, "login_redirect")
    ELSE [l EXCEPT !.pc = FirstPc(r.op)]

\* ------------------------------------------------------------ record store
Exists(k) == k \in Ids /\ records[k] # None
Doc(k)    == Val(records[k])
\* the query finds nothing
QueryDocIdNone(i) == {}
\* .where('doc_id', '==', req_id): the keys of the matching documents
QueryDocId(i) == { k \in Ids : records[k] # None /\ Doc(k).doc_id = i }
FreeIds   == { k \in Ids : records[k] = None }
InSubmit  == { t \in Threads : req[t].pc \in {"su_save", "su_set"} }

Init ==
  /\ records = [k \in Keys(MaxRecords) |-> None]
  /\ gen_files = {}
  /\ upload_files = {}
  /\ session = NoSession
  /\ clock = 0
  /\ WEASY_AVAILABLE \in BOOLEAN
  /\ os_sep = "/"
  /\ host_files = {config_py}
  /\ req = [t \in Threads |-> IdleReq]

Set(t, l) == req' = [req EXCEPT ![t] = l]

\* a request arrives on an idle thread; the collection holds at most
\* MaxRecords documents, so no more submits are taken than it has room for
Begin(t, R) ==
  /\ req[t].pc = "idle"
  /\ \E r \in R :
       /\ r.op = "submit" => Cardinality(InSubmit) < Cardinality(FreeIds)
       /\ Set(t, Entry(r))
  /\ UNCHANGED <<records, gen_files, upload_files, session, clock, host>>

\* the response is sent and the thread is free again
Return(t) ==
  /\ req[t].pc = "done"
  /\ Set(t, IdleReq)
  /\ UNCHANGED <<records, gen_files, upload_files, session, clock, host>>

\* time passes
Tick ==
  /\ clock < MaxClock
  /\ clock' = clock + 1
  /\ UNCHANGED <<records, gen_files, upload_files, session, host, req>>

\* ------------------------------------------------------------------ submit
ALLOWED_EXT == { <<"p", "d", "f">> }

\* filename.rsplit('.', 1)[1]
Ext(filename) == Split(filename, ".")[Len(Split(filename, "."))]

\* '.' in filename and filename.rsplit('.', 1)[1].lower() in ALLOWED_EXT
allowed_file(filename) ==
  /\ \E i \in 1..Len(filename) : filename[i] = "."
  /\ StrLower(Ext(filename)) \in ALLOWED_EXT

\* the validation without the .strip() of the fields
SubmitValidNoStrip(r) ==
  /\ \A f \in RequiredFields : r.form[f] # <<>>
  /\ r.file # <<>>
  /\ allowed_file(r.file)
\* the minimal validation and the file checks of submit
SubmitValid(r) ==
  /\ \A f \in RequiredFields : strip(r.form[f]) # <<>>
  /\ r.file # <<>>
  /\ allowed_file(r.file)

\* permission_path = os.path.join('permission_letters', saved_filename)
PermissionPath(saved) == permission_letters \o <<os_sep>> \o SavedStr(saved)

\* the document submit writes.  The form carries the required fields only,
\* so student_year, branch and other_branch are '' and submission_date is
\* the date of the call; permission_pdf, the same file as permission_path
\* under its absolute name, is left out.  The three fields approve adds are
\* None for a document that does not have them yet.
SubmitPayload(k, form, saved, now) ==
  [doc_id |-> k,
   student_name |-> strip(form["full_name"]),
   college_name |-> strip(form["college_name"]),
   email |-> strip(form["email"]),
   start_date |-> strip(form["start_date"]),
   end_date |-> strip(form["end_date"]),
   duration |-> strip(form["duration"]),
   student_year |-> <<>>, branch |-> <<>>, other_branch |-> <<>>,
   permission_path |-> PermissionPath(saved), status |-> "pending",
   submission_date |-> saved.ts, created_at |-> now,
   generated_letter_filename |-> None, approved_at |-> None,
   issued_date |-> None]

\* submit up to file.save(save_path)
SuSave(t, ok) ==
  LET l == req[t] IN
  /\ l.pc = "su_save"
  /\ IF ~SubmitValid(l.rq)
       THEN Set(t, Finish(l, "invalid")) /\ UNCHANGED upload_files
       ELSE IF ~ok
         THEN Set(t, Finish(l, "error")) /\ UNCHANGED upload_files
         ELSE LET saved == SavedName(clock, l.rq.file) IN
              /\ upload_files' = upload_files \cup {saved}
              /\ Set(t, [l EXCEPT !.pc = "su_set", !.sent = Some(saved)])
  /\ UNCHANGED <<records, gen_files, session, clock, host>>

\* submit from db.collection(COLLECTION).document() to doc_ref.set(payload)
SuSet(t, ok) ==
  LET l == req[t]
      k == CHOOSE i \in FreeIds : \A j \in FreeIds : i <= j
  IN
  /\ l.pc = "su_set"
  /\ IF ok
       THEN /\ records' = [records EXCEPT ![k] = Some(SubmitPayload(k, l.rq.form, Val(l.sent), clock))]
            /\ Set(t, Finish([l EXCEPT !.doc_ref = Some(k)], "submitted"))
       ELSE /\ Set(t, Finish(l, "error"))
            /\ UNCHANGED records
  /\ UNCHANGED <<gen_files, upload_files, session, clock, host>>

\* ------------------------------------------------------------- admin auth
\* the password is not looked at
AdminLoginByUsername(t) ==
  LET l == req[t] IN
  /\ l.pc = "lg_post"
  /\ IF l.rq.cred.username = ADMIN_USERNAME
       THEN /\ session' = [session EXCEPT !.admin_logged_in = TRUE,
                                          !.admin_user = Some(l.rq.cred.username)]
            /\ Set(t, Finish(l, "logged_in"))
       ELSE /\ UNCHANGED session
            /\ Set(t, Finish(l, "invalid_credentials"))
  /\ UNCHANGED <<records, gen_files, upload_files, clock, host>>
\* admin_login: GET renders the login page; POST compares the form's
\* username and password with the configured ones
AdminLogin(t) ==
  LET l == req[t] IN
  /\ l.pc = "lg_post"
  /\ IF l.rq.method = "GET"
       THEN /\ UNCHANGED session
            /\ Set(t, Finish(l, "login_page"))
     ELSE IF l.rq.cred.username = ADMIN_USERNAME /\ l.rq.cred.password = ADMIN_PASSWORD
       THEN /\ session' = [session EXCEPT !.admin_logged_in = TRUE,
                                          !.admin_user = Some(l.rq.cred.username)]
            /\ Set(t, Finish(l, "logged_in"))
       ELSE /\ UNCHANGED session
            /\ Set(t, Finish(l, "invalid_credentials"))
  /\ UNCHANGED <<records, gen_files, upload_files, clock, host>>

\* admin_logout: session.clear()
AdminLogout(t) ==
  LET l == req[t] IN
  /\ l.pc = "lo_clear"
  /\ session' = NoSession
  /\ Set(t, Finish(l, "logged_out"))
  /\ UNCHANGED <<records, gen_files, upload_files, clock, host>>

\* ---------------------------------------------------------- admin_approve
\* the file is named after the document's doc_id field
pdf_filename_of_doc_id(k) == GenName("offer_", Doc(k).doc_id)
\* pdf_filename = f"offer_{doc_ref.id}.pdf"
pdf_filename(k) == GenName("offer_", k)

\* the write reports success and leaves no file
WritePdfLost(files, name) == files
\* a PDF back-end writes pdf_path, overwriting a file of that name
WritePdf(files, name) == files \cup {name}

\* the update stamps created_at as well
ApprovePayloadStampsCreated(rec, name, now, issued) ==
  [rec EXCEPT !.status = "approved", !.generated_letter_filename = Some(name),
              !.approved_at = Some(now), !.issued_date = issued,
              !.created_at = now]
\* doc_ref.update(update_payload); generated_letter_path, the same file
\* under its absolute name, is left out
ApprovePayload(rec, name, now, issued) ==
  [rec EXCEPT !.status = "approved", !.generated_letter_filename = Some(name),
              !.approved_at = Some(now), !.issued_date = issued]

\* the except clause's doc_ref.update({'status': 'pending'})
RollbackPayload(rec) == [rec EXCEPT !.status = "pending"]

\* doc_ref = document(req_id); doc = doc_ref.get()
ApGet(t, ok) ==
  LET l == [req[t] EXCEPT !.doc_ref = Some(req[t].rq.req_id)] IN
  /\ req[t].pc = "ap_get"
  /\ Set(t, IF ~ok THEN [l EXCEPT !.pc = "ap_except"]
            ELSE IF Exists(l.rq.req_id)
              THEN [l EXCEPT !.pc = "ap_render", !.data = records[l.rq.req_id]]
              ELSE [l EXCEPT !.pc = "ap_query"])
  /\ UNCHANGED <<records, gen_files, upload_files, session, clock, host>>

\* the fallback: where('doc_id', '==', req_id).limit(1), then get() of the
\* document found.  Documents are never deleted and doc_id is never
\* rewritten, so the query and the get that follows it read as one access.
ApQuery(t, ok) ==
  LET l == req[t] IN
  /\ l.pc = "ap_query"
  /\ IF ~ok THEN Set(t, [l EXCEPT !.pc = "ap_except"])
     ELSE IF QueryDocId(l.rq.req_id) = {} THEN Set(t, Finish(l, "not_found"))
     ELSE \E k \in QueryDocId(l.rq.req_id) :
            Set(t, [l EXCEPT !.pc = "ap_render", !.doc_ref = Some(k),
                             !.data = records[k]])
  /\ UNCHANGED <<records, gen_files, upload_files, session, clock, host>>

\* the already-approved return, else steps 2-4: the template variables, the
\* output path, issued = utcnow(), render_template
ApRender(t, ok) ==
  LET l == req[t] IN
  /\ l.pc = "ap_render"
  /\ Set(t, IF AlreadyApproved(Val(l.data)) THEN Finish(l, "already_approved")
            ELSE IF ~ok THEN [l EXCEPT !.pc = "ap_except"]
            ELSE [l EXCEPT !.pc = "ap_wk", !.issued = Some(clock)])
  /\ UNCHANGED <<records, gen_files, upload_files, session, clock, host>>

\* a back-end that raises is passed over: the handler goes on to step 6
ApWkFailureIgnored(t, ok) ==
  LET l == req[t] IN
  /\ l.pc = "ap_wk"
  /\ gen_files' = IF ok THEN WritePdf(gen_files, pdf_filename(Val(l.doc_ref)))
                        ELSE gen_files
  /\ Set(t, [l EXCEPT !.pc = "ap_update", !.pdf_generated = ok])
  /\ UNCHANGED <<records, upload_files, session, clock, host>>
\* step 5, first back-end: pdfkit.from_string.  A back-end that raises
\* (pdfkit.configuration finds no executable, wkhtmltopdf exits non-zero)
\* leaves the generated folder as it was.
ApWk(t, ok) ==
  LET l == req[t] IN
  /\ l.pc = "ap_wk"
  /\ IF ok
       THEN /\ gen_files' = WritePdf(gen_files, pdf_filename(Val(l.doc_ref)))
            /\ Set(t, [l EXCEPT !.pc = "ap_update", !.pdf_generated = TRUE])
       ELSE /\ UNCHANGED gen_files
            /\ Set(t, [l EXCEPT !.pc = IF WEASY_AVAILABLE THEN "ap_weasy"
                                                          ELSE "ap_except"])
  /\ UNCHANGED <<records, upload_files, session, clock, host>>

\* step 5, fallback: WeasyHTML(...).write_pdf
ApWeasy(t, ok) ==
  LET l == req[t] IN
  /\ l.pc = "ap_weasy"
  /\ IF ok
       THEN /\ gen_files' = WritePdf(gen_files, pdf_filename(Val(l.doc_ref)))
            /\ Set(t, [l EXCEPT !.pc = "ap_update", !.pdf_generated = TRUE])
       ELSE /\ UNCHANGED gen_files
            /\ Set(t, [l EXCEPT !.pc = "ap_except"])
  /\ UNCHANGED <<records, upload_files, session, clock, host>>

\* step 6: doc_ref.update(update_payload), and the response of step 7
ApUpdate(t, ok) ==
  LET l == req[t]
      k == Val(l.doc_ref)
  IN
  /\ l.pc = "ap_update"
  /\ IF ok
       THEN /\ records' = [records EXCEPT ![k] =
                   Some(ApprovePayload(Doc(k), pdf_filename(k), clock, l.issued))]
            /\ Set(t, Finish(l, "approved"))
       ELSE /\ UNCHANGED records
            /\ Set(t, [l EXCEPT !.pc = "ap_except"])
  /\ UNCHANGED <<gen_files, upload_files, session, clock, host>>

\* the except clause: "revert to pending if partial"; an update of a
\* document that does not exist raises, and the raise is swallowed
ApExcept(t, ok) ==
  LET l == req[t]
      k == Val(l.doc_ref)
  IN
  /\ l.pc = "ap_except"
  /\ records' = IF ok /\ Exists(k)
                  THEN [records EXCEPT ![k] = Some(RollbackPayload(Doc(k)))]
                  ELSE records
  /\ Set(t, Finish(l, "error"))
  /\ UNCHANGED <<gen_files, upload_files, session, clock, host>>

\* ----------------------------------------------------------- admin_reject
\* the unlink is skipped
UnlinkSkipped(files, name) == files
\* gen_path.exists() and gen_path.unlink()
Unlink(files, name) == files \ {name}

\* the update clears the file name and leaves the dates
RejectPayloadKeepsDates(rec) ==
  [rec EXCEPT !.status = "rejected", !.generated_letter_filename = None]
\* the update that clears the generated references
RejectPayload(rec) ==
  [rec EXCEPT !.status = "rejected", !.generated_letter_filename = None,
              !.approved_at = None, !.issued_date = None]

\* where reject goes once it holds the document: to the unlink when
\* generated_letter_filename is set, else straight to the update
RjNext(d) == IF Val(d).generated_letter_filename # None THEN "rj_unlink"
                                                         ELSE "rj_update"

\* doc_ref = document(req_id); doc = doc_ref.get()
RjGet(t, ok) ==
  LET l == [req[t] EXCEPT !.doc_ref = Some(req[t].rq.req_id)] IN
  /\ req[t].pc = "rj_get"
  /\ Set(t, IF ~ok THEN Finish(l, "error")
            ELSE IF Exists(l.rq.req_id)
              THEN [l EXCEPT !.pc = RjNext(records[l.rq.req_id]),
                             !.data = records[l.rq.req_id]]
              ELSE [l EXCEPT !.pc = "rj_query"])
  /\ UNCHANGED <<records, gen_files, upload_files, session, clock, host>>

\* the fallback lookup by the doc_id field
RjQuery(t, ok) ==
  LET l == req[t] IN
  /\ l.pc = "rj_query"
  /\ IF ~ok THEN Set(t, Finish(l, "error"))
     ELSE IF QueryDocId(l.rq.req_id) = {} THEN Set(t, Finish(l, "not_found"))
     ELSE \E k \in QueryDocId(l.rq.req_id) :
            Set(t, [l EXCEPT !.pc = RjNext(records[k]), !.doc_ref = Some(k),
                             !.data = records[k]])
  /\ UNCHANGED <<records, gen_files, upload_files, session, clock, host>>

\* a failed unlink ends the handler in its outer except clause
AfterUnlinkFatal(l, ok) ==
  IF ok THEN [l EXCEPT !.pc = "rj_update"] ELSE Finish([l EXCEPT !.warned = TRUE], "error")
\* what follows the try around the unlink, whether it raised or not
AfterUnlink(l, ok) == [l EXCEPT !.pc = "rj_update", !.warned = ~ok]

\* remove the generated file; a failure is logged as a warning
RjUnlink(t, ok) ==
  LET l == req[t] IN
  /\ l.pc = "rj_unlink"
  /\ gen_files' = IF ok THEN Unlink(gen_files, Val(Val(l.data).generated_letter_filename))
                        ELSE gen_files
  /\ Set(t, AfterUnlink(l, ok))
  /\ UNCHANGED <<records, upload_files, session, clock, host>>

\* doc_ref.update({... 'status': 'rejected' ...})
RjUpdate(t, ok) ==
  LET l == req[t]
      k == Val(l.doc_ref)
  IN
  /\ l.pc = "rj_update"
  /\ IF ok
       THEN /\ records' = [records EXCEPT ![k] = Some(RejectPayload(Doc(k)))]
            /\ Set(t, Finish(l, "rejected"))
       ELSE /\ UNCHANGED records
            /\ Set(t, Finish(l, "error"))
  /\ UNCHANGED <<gen_files, upload_files, session, clock, host>>

\* -------------------------------------------------------- read-only routes
\* only offer_<id>.pdf is looked for
FirstFileOfferOnly(id) ==
  IF GenName("offer_", id) \in gen_files THEN Some(GenName("offer_", id)) ELSE None
\* the first of download_letter's candidates that is a file, if any
FirstFile(id) ==
  LET hits == { i \in 1..Len(Candidates(id)) : Candidates(id)[i] \in gen_files } IN
  IF hits = {} THEN None
  ELSE Some(Candidates(id)[CHOOSE i \in hits : \A j \in hits : i <= j])

\* download_letter: the loop over the candidate files
DlFiles(t) ==
  LET l == req[t]
      f == FirstFile(l.rq.req_id)
  IN
  /\ l.pc = "dl_files"
  /\ Set(t, IF f # None THEN Finish([l EXCEPT !.sent = f], "file")
            ELSE [l EXCEPT !.pc = "dl_get"])
  /\ UNCHANGED <<records, gen_files, upload_files, session, clock, host>>

\* download_letter: the Firestore fallback.  DocumentSnapshot.get raises
\* KeyError for a field the document does not have; no handler writes
\* pdf_url, so doc.get('pdf_url') raises, the except logs it, and abort(404)
\* follows.
DlGet(t, ok) ==
  LET l == req[t]
      k == l.rq.req_id
  IN
  /\ l.pc = "dl_get"
  /\ Set(t, IF ~ok \/ ~Exists(k) THEN Finish(l, "not_found")
            ELSE IF "pdf_url" \notin DOMAIN Doc(k) THEN Finish(l, "not_found")
            ELSE IF /\ Doc(k).generated_letter_filename # None
                    /\ Val(Doc(k).generated_letter_filename) \in gen_files
              THEN Finish([l EXCEPT !.sent = Doc(k).generated_letter_filename], "file")
            ELSE Finish(l, "redirect_pdf_url"))
  /\ UNCHANGED <<records, gen_files, upload_files, session, clock, host>>

\* serve_generated
SgFile(t) ==
  LET l == req[t]
      safe == secure_filename(l.rq.path)
  IN
  /\ l.pc = "sg_file"
  /\ Set(t, IF safe \in gen_files THEN Finish([l EXCEPT !.sent = Some(safe)], "file")
            ELSE Finish(l, "not_found"))
  /\ UNCHANGED <<records, gen_files, upload_files, session, clock, host>>

\* cand_resolved.is_file(): the upload files (submit saves them under
\* UPLOAD_FOLDER/permission_letters), the generated letters, and the other
\* files of the host
UploadPath(saved) ==
  PathJoin(PathJoin(UPLOAD_FOLDER, permission_letters), SavedStr(saved))
is_file(p) ==
  \/ \E f \in upload_files : p = UploadPath(f)
  \/ \E g \in gen_files : p = PathJoin(GENERATED_FOLDER, GenStr(g))
  \/ p \in host_files

\* the requested filename is looked up under the root as given, and nowhere else
uploaded_candidates_as_given(filename) ==
  << resolve(PathJoin(UPLOAD_FOLDER, DropPrefix(filename, uploads \o <<"/">>))) >>
\* uploaded_file: the three candidates for the requested filename, resolved
uploaded_candidates(filename) ==
  LET f1 == DropPrefix(filename, uploads \o <<"/">>)
      f  == IF StartsWith(f1, <<"/">>) THEN LStrip(f1, {"/"}) ELSE f1
  IN  << resolve(PathJoin(UPLOAD_FOLDER, f)),
         resolve(PathJoin(UPLOAD_FOLDER, PathName(f))),
         resolve(PathJoin(PathJoin(UPLOAD_FOLDER, permission_letters), PathName(f))) >>

\* str(cand_resolved).startswith(str(upload_base)) and cand_resolved.is_file()
uploaded_ok(cand) == StartsWith(cand, resolve(UPLOAD_FOLDER)) /\ is_file(cand)

\* uploaded_file: the first candidate that passes is sent, else abort(404)
UfFile(t) ==
  LET l == req[t]
      cands == uploaded_candidates(l.rq.upload)
      hits == { i \in 1..Len(cands) : uploaded_ok(cands[i]) }
  IN
  /\ l.pc = "uf_file"
  /\ Set(t, IF hits # {}
              THEN Finish([l EXCEPT !.sent =
                     Some(cands[CHOOSE i \in hits : \A j \in hits : i <= j])], "file")
              ELSE Finish(l, "not_found"))
  /\ UNCHANGED <<records, gen_files, upload_files, session, clock, host>>

\* the characters of a str, as str.lstrip takes its argument
CharsOf(s) == { s[i] : i \in 1..Len(s) }

\* admin_view: perm.replace("\\", "/").lstrip("uploads/").lstrip("/")
view_permission(perm) ==
  LStrip(LStrip(Replace(perm, "\\", "/"), CharsOf(uploads \o <<"/">>)), {"/"})

\* admin_view: permission_filename = perm or None, the path the page links
permission_filename(data) ==
  IF data.permission_path = <<>> THEN None
  ELSE IF view_permission(data.permission_path) = <<>> THEN None
  ELSE Some(view_permission(data.permission_path))

\* admin_view: the lookup (with its doc_id fallback) and the page, with the
\* permission path and the status it is given
AvGet(t, ok) ==
  LET l == req[t]
      i == l.rq.req_id
      page(d) == Finish([l EXCEPT !.data = d, !.sent = permission_filename(Val(d)),
                                  !.page_status = Some(view_status(Val(d)))],
                        "view")
  IN
  /\ l.pc = "av_get"
  /\ IF ~ok THEN Set(t, Finish(l, "error"))
     ELSE IF Exists(i) THEN Set(t, page(records[i]))
     ELSE IF QueryDocId(i) = {} THEN Set(t, Finish(l, "not_found"))
     ELSE \E k \in QueryDocId(i) : Set(t, page(records[k]))
  /\ UNCHANGED <<records, gen_files, upload_files, session, clock, host>>

\* the sequences that list every element of S once
Orderings(S) ==
  { s \in [1..Cardinality(S) -> S] : \A i, j \in 1..Cardinality(S) : i # j => s[i] # s[j] }

\* the stream comes in no particular order
ListedUnordered == Orderings({ k \in Ids : Exists(k) })
\* order_by('created_at', direction=DESCENDING).stream(): the documents by
\* created_at, latest first.  created_at is an ISO-8601 string, whose
\* string order is the order of the instants.  Among documents with equal
\* created_at Firestore orders by document id, which document() draws at
\* random, so any order of them may come.
Listed ==
  { s \in Orderings({ k \in Ids : Exists(k) }) :
      \A i \in 1..(Len(s) - 1) : Doc(s[i]).created_at >= Doc(s[i + 1]).created_at }

\* admin_dashboard: the ordered stream of the collection and the page, whose
\* rows are in the order of the stream and carry each document's status;
\* requests=[] when the stream raises
AdList(t, ok) ==
  LET l == req[t] IN
  /\ l.pc = "ad_list"
  /\ IF ok THEN \E s \in Listed :
                  Set(t, Finish([l EXCEPT !.sent = Some(s),
                                   !.page_status = Some([i \in 1..Len(s) |->
                                                          row_status(Doc(s[i]))])],
                                "list"))
           ELSE Set(t, Finish([l EXCEPT !.sent = Some(<<>>)], "list_error"))
  /\ UNCHANGED <<records, gen_files, upload_files, session, clock, host>>

\* ------------------------------------------------------------ next state
\* A store access returns (ok) or raises (~ok); O is the set of outcomes the
\* environment may produce, R the set of requests the clients may send.

\* the steps of the handlers other than approve's failure path
Serve(t, R, O) ==
  \/ Begin(t, R)
  \/ Return(t)
  \/ AdminLogin(t)
  \/ AdminLogout(t)
  \/ DlFiles(t)
  \/ SgFile(t)
  \/ UfFile(t)
  \/ \E ok \in O :
       \/ SuSave(t, ok)
       \/ SuSet(t, ok)
       \/ ApGet(t, ok)
       \/ ApQuery(t, ok)
       \/ ApRender(t, ok)
       \/ ApWk(t, ok)
       \/ ApUpdate(t, ok)
       \/ RjGet(t, ok)
       \/ RjQuery(t, ok)
       \/ RjUnlink(t, ok)
       \/ RjUpdate(t, ok)
       \/ DlGet(t, ok)
       \/ AvGet(t, ok)
       \/ AdList(t, ok)

\* approve after a back-end or a store access has raised
Recover(t, O) == \E ok \in O : ApWeasy(t, ok) \/ ApExcept(t, ok)

\* requests served one at a time by one worker, the processing model the
\* design states; the other threads stay idle
Next == Tick \/ Serve(1, Requests, BOOLEAN) \/ Recover(1, BOOLEAN)
Spec == Init /\ [][Next]_vars

\* one at a time, and every store access succeeds
OkNext == Tick \/ Serve(1, Requests, {TRUE})
SpecOk == Init /\ [][OkNext]_vars

\* the lifecycle requests on document 1, served concurrently by all threads
ConcRequests ==
  { r \in Requests :
      \/ r.op = "admin_login" /\ r.cred = Configured
      \/ r.op = "submit" /\ SubmitValid(r)
      \/ r.op \in {"admin_approve", "admin_reject"} /\ r.req_id = 1 }

ConcNext ==
  \E t \in Threads :
    \/ Begin(t, ConcRequests)
    \/ Return(t)
    \/ AdminLogin(t)
    \/ \E ok \in BOOLEAN :
         \/ SuSave(t, ok)
         \/ SuSet(t, ok)
         \/ ApGet(t, ok)
         \/ ApQuery(t, ok)
         \/ ApRender(t, ok)
         \/ ApWk(t, ok)
         \/ ApWeasy(t, ok)
         \/ ApUpdate(t, ok)
         \/ ApExcept(t, ok)
         \/ RjGet(t, ok)
         \/ RjQuery(t, ok)
         \/ RjUnlink(t, ok)
         \/ RjUpdate(t, ok)
SpecConc == Init /\ [][ConcNext]_vars

\* submit alone, with every kind of form and of attached file
FieldValues == { <<>>, <<" ">>, <<"v">>, <<" ", "v", " ">> }
SubmitForms == { [FullForm EXCEPT ![f] = v] : f \in RequiredFields, v \in FieldValues }
SubmitFiles == { <<>>, a_pdf, a_txt, <<"a", ".", "P", "D", "F">>, <<"p", "d", "f">>,
                 <<"a", ".", "p", "d", "f", ".", "t", "x", "t">> }
SubmitRequests ==
  { [BaseRq EXCEPT !.op = "submit", !.form = f, !.file = n] :
      f \in SubmitForms, n \in SubmitFiles }

SubmitNext ==
  \/ Tick
  \/ Begin(1, SubmitRequests)
  \/ Return(1)
  \/ \E ok \in BOOLEAN : SuSave(1, ok) \/ SuSet(1, ok)
SpecSubmit == Init /\ [][SubmitNext]_vars

\* A collection and a generated folder left by an earlier version of the
\* application: a document's doc_id field need not be its store key, and an
\* approved document's letter carries one of the earlier file names.
LegacyPrefixes == {"internship_", "", "letter_"}
LegacyDoc(a, gen) ==
  [SubmitPayload(a, FullForm, SavedName(0, a_pdf), 0) EXCEPT
     !.status = IF gen = None THEN "pending" ELSE "approved",
     !.generated_letter_filename = gen,
     !.approved_at = IF gen = None THEN None ELSE Some(0),
     !.issued_date = IF gen = None THEN None ELSE Some(0)]
LegacyDocs(k) ==
  { LegacyDoc(a, g) : a \in ReqIds,
                      g \in {None} \cup { Some(GenName(p, k)) : p \in LegacyPrefixes } }

InitLegacy ==
  /\ WEASY_AVAILABLE \in BOOLEAN
  /\ os_sep = "/"
  /\ host_files = {config_py}
  /\ records \in { r \in [Keys(MaxRecords) -> {None} \cup
                              { Some(d) : d \in UNION { LegacyDocs(k) : k \in Keys(MaxRecords) } }] :
                     \A k \in Keys(MaxRecords) : r[k] = None \/ Val(r[k]) \in LegacyDocs(k) }
  /\ gen_files = { Val(Doc(k).generated_letter_filename) :
                     k \in { j \in Ids : Exists(j) /\ Doc(j).generated_letter_filename # None } }
  /\ upload_files = IF \E k \in Ids : Exists(k) THEN {SavedName(0, a_pdf)} ELSE {}
  /\ session = NoSession
  /\ clock = 0
  /\ req = [t \in Threads |-> IdleReq]

\* the administrator's operations on such a collection
LegacyRequests ==
  { r \in Requests :
      \/ r.op = "admin_login" /\ r.cred = Configured
      \/ r.op \in {"admin_approve", "admin_reject", "download_letter"} }

LegacyNext ==
  \/ Begin(1, LegacyRequests)
  \/ Return(1)
  \/ AdminLogin(1)
  \/ DlFiles(1)
  \/ \E ok \in BOOLEAN :
       \/ ApGet(1, ok)
       \/ ApQuery(1, ok)
       \/ ApRender(1, ok)
       \/ ApWk(1, ok)
       \/ ApWeasy(1, ok)
       \/ ApUpdate(1, ok)
       \/ ApExcept(1, ok)
       \/ RjGet(1, ok)
       \/ RjQuery(1, ok)
       \/ RjUnlink(1, ok)
       \/ RjUpdate(1, ok)
       \/ DlGet(1, ok)
SpecLegacy == InitLegacy /\ [][LegacyNext]_vars

\* An upload's way from submit through the page of admin_view to the upload
\* route, on a host of either separator that may hold, beside the upload
\* root, a directory whose name begins with the root's name.
sibling_file == UPLOAD_FOLDER \o <<"_", "o", "l", "d", "/", "x", ".", "p", "d", "f">>

InitUpload ==
  /\ records = [k \in Keys(MaxRecords) |-> None]
  /\ gen_files = {}
  /\ upload_files = {}
  /\ session = NoSession
  /\ clock = 0
  /\ WEASY_AVAILABLE = FALSE
  /\ os_sep \in {"/", "\\"}
  /\ host_files \in { {config_py}, {config_py, sibling_file} }
  /\ req = [t \in Threads |-> IdleReq]

\* the filenames a client may put after /uploads/
dotdot == <<".", ".", "/">>
UploadNames ==
  UNION { { SavedStr(SavedName(ts, a_pdf)),
            permission_letters \o <<"/">> \o SavedStr(SavedName(ts, a_pdf)),
            view_permission(PermissionPath(SavedName(ts, a_pdf))),
            uploads \o <<"/">> \o SavedStr(SavedName(ts, a_pdf)) } : ts \in Times }
  \cup { dotdot \o dotdot \o PathName(config_py),
         dotdot \o permission_letters \o <<"_", "o", "l", "d", "/", "x", ".", "p", "d", "f">> }

UploadRequests ==
     { [BaseRq EXCEPT !.op = "uploaded_file", !.upload = n] : n \in UploadNames }
  \cup { r \in Requests : \/ r.op = "admin_login" /\ r.cred = Configured
                          \/ r.op = "submit" /\ SubmitValid(r)
                          \/ r.op = "admin_view" }

UploadNext ==
  \/ Tick
  \/ Begin(1, UploadRequests)
  \/ Return(1)
  \/ AdminLogin(1)
  \/ UfFile(1)
  \/ \E ok \in BOOLEAN : SuSave(1, ok) \/ SuSet(1, ok) \/ AvGet(1, ok)
SpecUpload == InitUpload /\ [][UploadNext]_vars

\* Submissions at several instants and the dashboard, on a collection with
\* room for a few more documents and a clock that runs a little longer.
ListRecords == MaxRecords + 2
ListClock   == MaxClock + 1

InitList ==
  /\ records = [k \in Keys(ListRecords) |-> None]
  /\ gen_files = {}
  /\ upload_files = {}
  /\ session = NoSession
  /\ clock = 0
  /\ WEASY_AVAILABLE = FALSE
  /\ os_sep = "/"
  /\ host_files = {config_py}
  /\ req = [t \in Threads |-> IdleReq]

ListTick ==
  /\ clock < ListClock
  /\ clock' = clock + 1
  /\ UNCHANGED <<records, gen_files, upload_files, session, host, req>>

ListRequests ==
  { r \in Requests : \/ r.op = "admin_login" /\ r.cred = Configured
                     \/ r.op = "submit" /\ SubmitValid(r)
                     \/ r.op = "admin_dashboard" }

ListNext ==
  \/ ListTick
  \/ Begin(1, ListRequests)
  \/ Return(1)
  \/ AdminLogin(1)
  \/ \E ok \in BOOLEAN : SuSave(1, ok) \/ SuSet(1, ok) \/ AdList(1, ok)
SpecList == InitList /\ [][ListNext]_vars

\* A collection whose documents were written or edited outside the
\* application: the status is any stored value, and a document whose status
\* reads as approved has its letter.
StatusDoc(k, st) ==
  LET done == Lower(st) = "approved" IN
  [SubmitPayload(k, FullForm, SavedName(0, a_pdf), 0) EXCEPT
     !.status = st,
     !.generated_letter_filename = IF done THEN Some(pdf_filename(k)) ELSE None,
     !.approved_at = IF done THEN Some(0) ELSE None,
     !.issued_date = IF done THEN Some(0) ELSE None]

InitStatus ==
  /\ WEASY_AVAILABLE \in BOOLEAN
  /\ os_sep = "/"
  /\ host_files = {config_py}
  /\ records \in { r \in [Keys(MaxRecords) ->
                            { Some(StatusDoc(k, st)) : k \in Keys(MaxRecords),
                                                       st \in StoredStatuses }] :
                     \A k \in Keys(MaxRecords) : Val(r[k]).doc_id = k }
  /\ gen_files = { Val(Doc(k).generated_letter_filename) :
                     k \in { j \in Ids : Doc(j).generated_letter_filename # None } }
  /\ upload_files = {SavedName(0, a_pdf)}
  /\ session = NoSession
  /\ clock = 0
  /\ req = [t \in Threads |-> IdleReq]

\* the routes that read a document's status
StatusRequests ==
  { r \in Requests :
      \/ r.op = "admin_login" /\ r.cred = Configured
      \/ r.op \in {"admin_approve", "admin_view", "admin_dashboard"} }

StatusNext ==
  \/ Begin(1, StatusRequests)
  \/ Return(1)
  \/ AdminLogin(1)
  \/ \E ok \in BOOLEAN :
       \/ ApGet(1, ok)
       \/ ApQuery(1, ok)
       \/ ApRender(1, ok)
       \/ ApWk(1, ok)
       \/ ApWeasy(1, ok)
       \/ ApUpdate(1, ok)
       \/ ApExcept(1, ok)
       \/ AvGet(1, ok)
       \/ AdList(1, ok)
SpecStatus == InitStatus /\ [][StatusNext]_vars

\* One session's logins and logouts: every pairing of the names below as
\* username and password, the login page, logout, and the dashboard as the
\* route behind admin_required.
FormValues == {ADMIN_USERNAME, ADMIN_PASSWORD, "Admin", ""}
AuthRequests ==
     { [BaseRq EXCEPT !.op = "admin_login", !.cred = Pair(u, p)] :
         u \in FormValues, p \in FormValues }
  \cup { [BaseRq EXCEPT !.op = "admin_login", !.method = "GET"] }
  \cup { [BaseRq EXCEPT !.op = o] : o \in {"admin_logout", "admin_dashboard"} }

AuthNext ==
  \/ Tick
  \/ Begin(1, AuthRequests)
  \/ Return(1)
  \/ AdminLogin(1)
  \/ AdminLogout(1)
  \/ \E ok \in BOOLEAN : AdList(1, ok)
SpecAuth == Init /\ [][AuthNext]_vars

\* ================================================================= claims
Done(t, o) == req[t].pc = "done" /\ req[t].rq.op = o
Key(t)     == Val(req[t].doc_ref)
Before(t)  == Val(req[t].data)
HasLetter(k) == Doc(k).generated_letter_filename # None

HasLetterBefore(t) == Before(t).generated_letter_filename # None

\* C1: for every record, generated_letter_filename is non-null if and only
\* if its status is approved, in every state the operations can reach.
C1_StatusArtifactCoupling ==
  \A k \in Ids : Exists(k) => (HasLetter(k) <=> Doc(k).status = "approved")

\* C2: an approve that fails after it resolved the record leaves the
\* record's status as it was before the call, and sets no
\* generated_letter_filename.
C2_FailedApproveKeepsStatus ==
  (Done(1, "admin_approve") /\ req[1].res = "error" /\ req[1].data # None)
    => /\ Doc(Key(1)).status = Before(1).status
       /\ Doc(Key(1)).generated_letter_filename = Before(1).generated_letter_filename

\* C3: an approve that finds the record approved renders nothing, writes no
\* file and updates no record: it ends as "already approved" with the
\* record, and so its generated_letter_filename, as the first call left it.
C3_SecondApproveIsNoOp ==
  /\ [][ (req[1].pc = "ap_render" /\ Before(1).status = "approved"
             /\ req'[1] # req[1])
           => /\ req'[1].pc = "done" /\ req'[1].res = "already_approved"
              /\ UNCHANGED <<records, gen_files>> ]_vars
  /\ [](  (Done(1, "admin_approve") /\ req[1].data # None
             /\ Before(1).status = "approved")
           => /\ req[1].res = "already_approved"
              /\ ~req[1].pdf_generated
              /\ Doc(Key(1)) = Before(1)
              /\ Doc(Key(1)).generated_letter_filename = Some(pdf_filename(Key(1))) )
C3_Witness ==
  /\ Done(1, "admin_approve") /\ req[1].res = "already_approved"
  /\ Doc(Key(1)).generated_letter_filename = Some(pdf_filename(Key(1)))
  /\ pdf_filename(Key(1)) \in gen_files

\* C4: of two concurrent approves of one record at most one commits the
\* approved update: no approve commits it on a record already approved.
C4_AtMostOneApproveCommits ==
  [][ \A t \in Threads :
        (req[t].pc = "ap_update" /\ req'[t].pc = "done" /\ req'[t].res = "approved")
          => Doc(Key(t)).status # "approved" ]_vars

\* a record that is approved while the file its generated_letter_filename
\* names is not in the generated folder
ApprovedWithoutFile(k) ==
  /\ Exists(k) /\ Doc(k).status = "approved"
  /\ \/ ~HasLetter(k)
     \/ Val(Doc(k).generated_letter_filename) \notin gen_files

\* C5 as stated: at every step of every operation an approved record has
\* its artifact file in the generated folder.
C5_ApprovedAlwaysHasFile == \A k \in Ids : ~ApprovedWithoutFile(k)

\* C5 as amended: with requests served one at a time, the only step after
\* which a record is approved without its artifact is reject's unlink; no
\* step of approve is, because approve commits status=approved only after
\* its PDF write succeeded.
C5_OnlyRejectUnlinksUnderApproved ==
  [][ \A k \in Ids :
        (~ApprovedWithoutFile(k) /\ ApprovedWithoutFile(k)')
          => \E t \in Threads : req[t].pc = "rj_unlink" /\ Key(t) = k ]_vars
C5_Witness ==
  /\ Done(1, "admin_approve") /\ req[1].res = "approved" /\ req[1].pdf_generated
  /\ Doc(Key(1)).status = "approved" /\ pdf_filename(Key(1)) \in gen_files

\* C6: download_letter and serve_generated return a generated artifact only
\* for a record whose status is approved.
C6_ArtifactServedOnlyIfApproved ==
  /\ (Done(1, "download_letter") /\ req[1].res = "file")
       => (Exists(req[1].rq.req_id) /\ Doc(req[1].rq.req_id).status = "approved")
  /\ (Done(1, "serve_generated") /\ req[1].res = "file")
       => \E k \in Ids : /\ Exists(k) /\ Doc(k).status = "approved"
                         /\ Val(req[1].sent) = pdf_filename(k)

\* what C7 says of the record after a reject that completed
RejectCleared(t) ==
  /\ Doc(Key(t)).status = "rejected"
  /\ Doc(Key(t)).generated_letter_filename = None
  /\ Doc(Key(t)).approved_at = None
  /\ Doc(Key(t)).issued_date = None

\* C7 as stated: after reject completes the record is rejected with its
\* three generated fields null, and the file generated_letter_filename
\* named before the call is gone.
C7_RejectClearsAndRemovesFile ==
  (Done(1, "admin_reject") /\ req[1].res = "rejected")
    => /\ RejectCleared(1)
       /\ HasLetterBefore(1) => Val(Before(1).generated_letter_filename) \notin gen_files

\* C7 as amended: the same, except that the file is gone only if its
\* deletion did not fail; a failed deletion is logged and the file stays.
C7_RejectClearsAndRemovesFileUnlessUnlinkFailed ==
  (Done(1, "admin_reject") /\ req[1].res = "rejected")
    => /\ RejectCleared(1)
       /\ (HasLetterBefore(1) /\ ~req[1].warned)
            => Val(Before(1).generated_letter_filename) \notin gen_files
C7_Witness ==
  /\ Done(1, "admin_reject") /\ req[1].res = "rejected"
  /\ Before(1).status = "approved" /\ HasLetterBefore(1) /\ ~req[1].warned
  /\ Before(1).approved_at # None /\ Before(1).issued_date # None

\* C8: a failed deletion of the generated file does not stop reject: the
\* handler goes on to its record update whatever the unlink's outcome, and
\* when that update returns the record is rejected although the file stays.
C8_UnlinkFailureNotFatal ==
  /\ [][ (req[1].pc = "rj_unlink" /\ req'[1] # req[1])
           => req'[1].pc = "rj_update" ]_vars
  /\ []( (Done(1, "admin_reject") /\ req[1].warned)
            => /\ req[1].res \in {"rejected", "error"}
               /\ req[1].res = "rejected" => RejectCleared(1) )
C8_Witness ==
  /\ Done(1, "admin_reject") /\ req[1].warned /\ req[1].res = "rejected"
  /\ Doc(Key(1)).status = "rejected"
  /\ Val(Before(1).generated_letter_filename) \in gen_files

\* the handler was entered: admin_required let the request through
Admitted(t) == req[t].res # "login_redirect"

\* C9: with every store access succeeding, approve of a submitted record
\* leaves it approved with offer_<id>.pdf in the generated folder and
\* download returns that file; a following reject leaves it rejected with
\* the file removed, and download then answers NotFound.
C9_ApproveThenRejectScenario ==
  /\ (Done(1, "admin_approve") /\ Admitted(1) /\ Exists(req[1].rq.req_id))
       => /\ req[1].res \in {"approved", "already_approved"}
          /\ Doc(Key(1)).status = "approved"
          /\ Doc(Key(1)).generated_letter_filename = Some(pdf_filename(Key(1)))
          /\ pdf_filename(Key(1)) \in gen_files
  /\ (Done(1, "admin_reject") /\ Admitted(1) /\ Exists(req[1].rq.req_id))
       => /\ req[1].res = "rejected"
          /\ Doc(Key(1)).status = "rejected"
          /\ pdf_filename(Key(1)) \notin gen_files
  /\ \A k \in Ids :
       (Done(1, "download_letter") /\ Admitted(1) /\ req[1].rq.req_id = k /\ Exists(k))
         => /\ Doc(k).status = "approved"
              => (req[1].res = "file" /\ req[1].sent = Some(pdf_filename(k)))
            /\ Doc(k).status = "rejected" => req[1].res = "not_found"
C9_Witness ==
  /\ Done(1, "admin_reject") /\ req[1].res = "rejected"
  /\ Before(1).status = "approved"
  /\ Before(1).generated_letter_filename = Some(pdf_filename(Key(1)))
  /\ Doc(Key(1)).status = "rejected"
  /\ pdf_filename(Key(1)) \notin gen_files

\* C10: without the admin flag every admin route answers with the redirect
\* to the login page before it touches a record or a file, and the only
\* operation that changes a record or a file is submit.
C10_AdminRoutesGated ==
  /\ [][ (req[1].pc = "idle" /\ req'[1].pc # "idle"
           /\ req'[1].rq.op \in AdminOps /\ ~session.admin_logged_in)
          => (req'[1].pc = "done" /\ req'[1].res = "login_redirect") ]_vars
  /\ [][ (~session.admin_logged_in
           /\ <<records, gen_files, upload_files>>' # <<records, gen_files, upload_files>>)
          => req[1].rq.op = "submit" ]_vars
  /\ []( req[1].res = "login_redirect"
           => (req[1].doc_ref = None /\ req[1].data = None /\ req[1].sent = None) )
C10_Witness ==
  /\ Done(1, "admin_approve") /\ req[1].res = "login_redirect"
  /\ Exists(req[1].rq.req_id) /\ Doc(req[1].rq.req_id).status = "pending"
  /\ ~session.admin_logged_in

\* ------------------------------------------------------------------- C11
\* a str that is empty once its leading and trailing blanks are removed
Blank(s) == \A i \in 1..Len(s) : s[i] = " "
\* the file's extension, read without regard to case, is pdf
HasPdfExtension(n) ==
  \E i \in 1..Len(n) :
    /\ n[i] = "." /\ \A j \in (i + 1)..Len(n) : n[j] # "."
    /\ StrLower(SubSeq(n, i + 1, Len(n))) = <<"p", "d", "f">>
\* the submissions C11 says are refused
Refused(r) ==
  \/ \E f \in RequiredFields : Blank(r.form[f])
  \/ r.file = <<>>
  \/ ~HasPdfExtension(r.file)

\* C11: a submit with a required field blank after trimming, with no file
\* or with a file whose extension is not pdf creates no record and stores
\* no upload; a submit that passes the checks and completes creates exactly
\* one record, with status pending, and nothing else creates or changes one.
C11_SubmitValidation ==
  /\ [][ (req[1].rq.op = "submit" /\ Refused(req[1].rq))
           => UNCHANGED <<records, upload_files>> ]_vars
  /\ [][ (req[1].pc = "su_save" /\ req'[1] # req[1] /\ Refused(req[1].rq))
           => (req'[1].pc = "done" /\ req'[1].res = "invalid") ]_vars
  /\ [][ records' # records
           => \E k \in Ids :
                /\ records[k] = None /\ records'[k] # None
                /\ Doc(k)'.status = "pending"
                /\ \A j \in Ids \ {k} : records'[j] = records[j]
                /\ req'[1].pc = "done" /\ req'[1].res = "submitted" ]_vars
  /\ []( (Done(1, "submit") /\ ~Refused(req[1].rq))
            => /\ req[1].res \in {"submitted", "error"}
               /\ req[1].res = "submitted"
                    => (Exists(Key(1)) /\ Doc(Key(1)).status = "pending") )
C11_Witness ==
  /\ Done(1, "submit") /\ req[1].res = "invalid"
  /\ req[1].rq.form["email"] = <<" ">> /\ req[1].rq.file = a_pdf
  /\ \A k \in Ids : ~Exists(k)
  /\ upload_files = {}

\* ------------------------------------------------------------------- C12
\* C12: once a record is approved or rejected no step returns its status to
\* pending, and a status changes only from pending to approved or rejected
\* or between approved and rejected.
C12_StatusNeverBackToPending ==
  [][ \A k \in Ids :
        (Exists(k) /\ Doc(k)'.status # Doc(k).status)
          => /\ Doc(k)'.status \in {"approved", "rejected"}
             /\ Doc(k).status \in {"pending", "approved", "rejected"} ]_vars

\* ------------------------------------------------------------------- C13
\* the fields submit writes and no later operation may touch
SubmitFields == {"doc_id", "student_name", "college_name", "email", "start_date",
                 "end_date", "duration", "student_year", "branch", "other_branch",
                 "permission_path", "submission_date", "created_at"}

\* C13: every step of approve and of reject, failed or not, leaves
\* permission_path, created_at and the applicant fields of every record as
\* submit wrote them.
C13_SubmitFieldsFrozen ==
  [][ \A k \in Ids : Exists(k) =>
        \A f \in SubmitFields : Doc(k)'[f] = Doc(k)[f] ]_vars
C13_Witness ==
  /\ Done(1, "admin_reject") /\ req[1].res = "rejected"
  /\ Before(1).status = "approved" /\ clock > Doc(Key(1)).created_at
  /\ Doc(Key(1)).permission_path = Before(1).permission_path

\* ------------------------------------------------------------------- C14
\* the thread runs approve or reject
Lifecycle(t) == req[t].rq.op \in {"admin_approve", "admin_reject"}
Rid(t) == req[t].rq.req_id
\* the records whose doc_id field is i
Aliased(i) == { k \in Ids : Exists(k) /\ Doc(k).doc_id = i }
\* the records a call with id i may act on: the one with key i when there is
\* one, otherwise those with doc_id i
Resolves(i) == IF Exists(i) THEN {i} ELSE Aliased(i)

C18_OneOfferFilePerRecord ==
  /\ [][ \A g \in gen_files' \ gen_files :
           /\ req[1].rq.op = "admin_approve"
           /\ Exists(Key(1)) /\ g = GenName("offer_", Key(1)) ]_vars
  /\ []( \A g \in gen_files : g.pre = "offer_" => Exists(g.id) )
  /\ []( (Done(1, "admin_approve") /\ req[1].res = "approved")
            => /\ Doc(Key(1)).generated_letter_filename = Some(GenName("offer_", Key(1)))
               /\ GenName("offer_", Key(1)) \in gen_files )
C18_Witness ==
  /\ Done(1, "admin_approve") /\ req[1].res = "approved"
  /\ Before(1).status = "rejected" /\ Rid(1) # Key(1)
  /\ { g \in gen_files : g.pre = "offer_" } = { GenName("offer_", Key(1)) }

\* ------------------------------------------------------------------- C19
\* the four names C19 lists for id i
DownloadNames(i) == { GenName(p, i) : p \in {"offer_", "internship_", "", "letter_"} }
\* the record with key i names a file the folder holds
NamesExistingFile(i) ==
  /\ Exists(i) /\ HasLetter(i)
  /\ Val(Doc(i).generated_letter_filename) \in gen_files

IsDescendant(p, root) ==
  Len(Parts(p)) > Len(Parts(root)) /\ StartsWith(Parts(p), Parts(root))

\* C15: whatever filename is requested, uploaded_file answers not-found or
\* sends a file below the configured upload root.
C15_UploadsServedFromRootOnly ==
  (Done(1, "uploaded_file") /\ req[1].res = "file")
    => IsDescendant(Val(req[1].sent), UPLOAD_FOLDER)

\* ------------------------------------------------------------------- C16
\* C16: the dashboard lists every record once, later created_at first: of
\* two records with different created_at the one created later comes
\* earlier in the list, so records created at t1 < t2 < t3 come t3, t2, t1.
C16_ListedNewestFirst ==
  (Done(1, "admin_dashboard") /\ req[1].res = "list")
    => LET s == Val(req[1].sent) IN
       /\ Len(s) = Cardinality({ k \in Ids : Exists(k) })
       /\ \A k \in Ids : Exists(k) => \E i \in 1..Len(s) : s[i] = k
       /\ \A i, j \in 1..Len(s) :
            Doc(s[i]).created_at > Doc(s[j]).created_at => i < j
C16_Witness ==
  /\ Done(1, "admin_dashboard") /\ req[1].res = "list"
  /\ Len(Val(req[1].sent)) = 3
  /\ Doc(Val(req[1].sent)[1]).created_at > Doc(Val(req[1].sent)[2]).created_at
  /\ Doc(Val(req[1].sent)[2]).created_at > Doc(Val(req[1].sent)[3]).created_at

\* ------------------------------------------------------------------- C20
\* C20: two records that submit created never name the same upload path, so
\* no submit saved its file over the file of an earlier one.
C20_UploadPathsDistinct ==
  \A j, k \in Ids :
    (Exists(j) /\ Exists(k) /\ j # k) => Doc(j).permission_path # Doc(k).permission_path

\* ------------------------------------------------------------------- C17
\* the normalisation C17 describes: backslashes become slashes, one leading
\* "uploads/" segment goes, leading slashes go
view_expected(perm) ==
  LStrip(DropPrefix(Replace(perm, "\\", "/"), uploads \o <<"/">>), {"/"})

\* C17: the path admin_view hands on is the stored permission_path
\* normalised as above, so a path permission_letters/<file> written by
\* submit is handed on unchanged.
C17_ViewPathNormalised ==
  (Done(1, "admin_view") /\ req[1].res = "view")
    => /\ req[1].sent = Some(view_expected(Before(1).permission_path))
       /\ StartsWith(Before(1).permission_path, permission_letters \o <<"/">>)
            => req[1].sent = Some(Before(1).permission_path)

\* ---- C21
\* a status as the design reads it: lowercase, and pending when the document
\* has none
read_status(v) == IF v \in {null, absent} THEN "pending" ELSE Lower(v)

\* C21: every read of a status is case-insensitive and takes an absent or
\* null status for pending: approve answers "already approved" exactly for a
\* document whose status reads as approved, and the request list and the
\* request view hand their pages the status as it reads.
C21_StatusReadNormalised ==
  /\ Done(1, "admin_approve") /\ req[1].data # None =>
       (req[1].res = "already_approved"
          <=> read_status(Val(req[1].data).status) = "approved")
  /\ Done(1, "admin_view") /\ req[1].res = "view" =>
       req[1].page_status = Some(read_status(Val(req[1].data).status))
  /\ Done(1, "admin_dashboard") /\ req[1].res = "list" =>
       \A i \in 1..Len(Val(req[1].sent)) :
         Val(req[1].page_status)[i] = read_status(Doc(Val(req[1].sent)[i]).status)

\* approve's check alone
C21_ApproveCheckNormalised ==
  Done(1, "admin_approve") /\ req[1].data # None =>
    (req[1].res = "already_approved"
       <=> read_status(Val(req[1].data).status) = "approved")

\* ---- C22
\* the link of the request view names document k's upload
ViewLinks(k, filename) == Exists(k) /\ permission_filename(Doc(k)) = Some(filename)

\* C22: for every record created by submit, the upload route, asked for the
\* permission path that the request view presents for that record, sends
\* exactly the file that submit stored for it, as long as the file exists.
C22_ViewLinkFetchesUpload ==
  Done(1, "uploaded_file") /\ Admitted(1) =>
    \A k \in Ids : \A f \in upload_files :
      ViewLinks(k, req[1].rq.upload) /\ Doc(k).permission_path = PermissionPath(f) =>
        req[1].res = "file" /\ req[1].sent = Some(UploadPath(f))

\* the link of a record submitted on a host that separates with "\" is fetched
C22_Witness ==
  /\ Done(1, "uploaded_file")
  /\ req[1].res = "file"
  /\ os_sep = "\\"
  /\ \E k \in Ids : \E f \in upload_files :
       /\ ViewLinks(k, req[1].rq.upload)
       /\ Doc(k).permission_path = PermissionPath(f)
       /\ req[1].sent = Some(UploadPath(f))

\* ---- C23
\* approve has passed the already-approved check and rendered the letter
Rendered(t) == req[t].issued # None
\* the letter of the document approve works on is in the generated folder
LetterWritten(files, t) == GenName("offer_", Val(req[t].doc_ref)) \in files

\* C23 as stated: an approve that came to generate the PDF ends approved,
\* with status = approved committed, exactly when a back-end wrote the PDF.
C23_ApprovedIffPdfWritten ==
  Done(1, "admin_approve") /\ Rendered(1) =>
    (req[1].res = "approved" /\ Doc(Key(1)).status = "approved"
       <=> req[1].pdf_generated)

\* the steps of approve from the first back-end on
C23_Step ==
  LET l == req[1]
      n == req'[1]
  IN
  \* the second back-end only after the first has failed, and only if there
  /\ n.pc = "ap_weasy" /\ l.pc # "ap_weasy" =>
       l.pc = "ap_wk" /\ ~n.pdf_generated /\ WEASY_AVAILABLE
  \* the first fails: the second if there is one, else the error path
  /\ l.pc = "ap_wk" /\ n.pc # "ap_wk" /\ ~n.pdf_generated =>
       /\ n.pc = IF WEASY_AVAILABLE THEN "ap_weasy" ELSE "ap_except"
       /\ records' = records
  \* the second fails: the error path
  /\ l.pc = "ap_weasy" /\ n.pc # "ap_weasy" /\ ~n.pdf_generated =>
       n.pc = "ap_except" /\ records' = records
  \* the update is reached exactly when a back-end has written the PDF
  /\ l.pc \in {"ap_wk", "ap_weasy"} /\ n.pc # l.pc =>
       /\ n.pc = "ap_update" <=> n.pdf_generated
       /\ n.pdf_generated => LetterWritten(gen_files', 1)
  /\ n.pc = "ap_update" /\ l.pc # "ap_update" => l.pc \in {"ap_wk", "ap_weasy"}
  \* the update commits approved, or raises and the error path runs
  /\ l.pc = "ap_update" /\ n.pc # "ap_update" =>
       \/ n.res = "approved" /\ Val(records'[Key(1)]).status = "approved"
       \/ n.pc = "ap_except" /\ records' = records
  \* the error path ends in the error response
  /\ l.pc = "ap_except" /\ n.pc # "ap_except" => n.res = "error"
  \* no other step makes a record approved
  /\ \A k \in Ids :
       Exists(k) /\ Doc(k).status # "approved"
         /\ Val(records'[k]).status = "approved" =>
           l.pc = "ap_update" /\ l.pdf_generated /\ k = Key(1)

\* C23, amended: the second back-end is tried only after the first has
\* failed; approve commits status = approved exactly when a back-end wrote
\* the PDF and the update that follows did not raise; when no back-end
\* wrote it, or the update raised, no approved update is committed and the
\* error path runs.
C23_FallbackThenCommit ==
  /\ [][C23_Step]_vars
  /\ [](Done(1, "admin_approve") /\ Rendered(1) =>
          /\ req[1].res \in {"approved", "error"}
          /\ req[1].res = "approved" =>
               /\ req[1].pdf_generated
               /\ Doc(Key(1)).status = "approved"
               /\ LetterWritten(gen_files, 1)
          /\ req[1].res = "error" => Doc(Key(1)).status # "approved")

\* both back-ends were tried and failed, and approve ended in an error
C23_Witness ==
  /\ Done(1, "admin_approve")
  /\ Rendered(1)
  /\ WEASY_AVAILABLE
  /\ ~req[1].pdf_generated
  /\ req[1].res = "error"

\* ---- C24
\* the form of the login attempt carries the configured pair
RightPair(t) ==
  /\ req[t].rq.cred.username = "admin"
  /\ req[t].rq.cred.password = "admin123"
\* thread t's handler of operation o answers in this step
Answers(t, o) == req[t].rq.op = o /\ req[t].pc # "done" /\ req'[t].pc = "done"

\* a step of the session: what each operation does to the admin flag
C24_Step ==
  LET attempt == Answers(1, "admin_login") /\ req[1].rq.method = "POST" IN
  /\ attempt /\ RightPair(1) => session'.admin_logged_in
  /\ attempt /\ ~RightPair(1) => session' = session
  /\ Answers(1, "admin_logout") => ~session'.admin_logged_in
  /\ ~attempt /\ ~Answers(1, "admin_logout") => session' = session

\* C24: over any sequence of login attempts and logouts in one session the
\* admin flag is set exactly when the latest successful login (username and
\* password both equal to the configured pair) has not been followed by a
\* logout: the flag starts unset, a login with the configured pair sets it,
\* a login with any other pair leaves it as it is, logout clears it, and
\* nothing else changes it.
C24_FlagFollowsLoginAndLogout ==
  /\ ~session.admin_logged_in
  /\ [][C24_Step]_vars

\* a login with the right username and a wrong password, made while the
\* flag is set, has left it set
C24_Witness ==
  /\ Done(1, "admin_login")
  /\ req[1].res = "invalid_credentials"
  /\ req[1].rq.cred.username = "admin"
  /\ session.admin_logged_in
================================================================================
